---- MODULE Spec2Model ----
(***************************************************************************)
(* ndscan: the scan execution loop of ScanRunner                           *)
(* (src/ndscan/experiment/scan_runner.py).                                 *)
(*                                                                         *)
(* The host side (ScanRunner methods running in the experiment process)    *)
(* and the core device side (the @kernel methods) are two sequential       *)
(* processes.  They communicate through RPCs: a synchronous RPC blocks the *)
(* kernel until the host has answered it, an asynchronous one              *)
(* (@rpc(flags={"async"})) is appended to an in-order queue and served by  *)
(* the host later.  The host serves every RPC in the order the kernel      *)
(* issued it, so a synchronous RPC is answered only once the queue has     *)
(* been drained.                                                           *)
(*                                                                         *)
(* Parameter values are floats in the program.  Here a value is the        *)
(* integer number of halves it stands for (3 is 1.5), which is enough to   *)
(* tell a value from its truncation to an integer.                         *)
(***************************************************************************)
EXTENDS Integers, Sequences, FiniteSets, TLC

\* ------------------------------------------------------------------ bounds

\* Longest point sequence generated for a scan.
MaxPoints == 12

\* Largest number of scan axes tried.
MaxAxes == 4

\* Largest number of asynchronous RPCs in flight between kernel and host.
MaxRpcQueue == 3

\* Most run_once calls of a continuous _run_single followed.
MaxSingleRuns == 4

\* Most run() calls made on one ScanRunner.
MaxRuns == 2

\* Longest point sequence, and most axes, of the scans run one after another
\* on the same ScanRunner.
MaxRerunPoints == 3

MaxRerunAxes == 2

\* Largest number of scan axes of a FragmentScanExperiment.
MaxScanAxes == 3

\* Most chunk requests of a kernel scan that return no point followed.
MaxEmptyChunks == 2

\* ------------------------------------------------------- program constants

\* CHUNK_SIZE of _kscan_param_values_chunk.
CHUNK_SIZE == 10

\* self.core.seconds_to_mu(0.2), in units of the shortest point duration.
kscan_pause_check_interval_mu == 2

\* The float 1.0 in halves.
One == 2

\* Value held by a parameter store before the scan has set it (its default).
ParamDefault == 99

Min(a, b) == IF a < b THEN a ELSE b

\* ------------------------------------------------------- external pieces

\* ParamStore.coerce: float(value) for a float parameter, int(value) for an
\* integer one.
coerce(type, value) ==
    IF type = "int" THEN value - (value % One) ELSE value

\* Points of a linear generator: count values from start, one half apart.
LinearPoints(start, count) == [k \in 1..count |-> start + (k - 1)]

\* Cross product of per-axis value lists, last axis fastest.
RECURSIVE Product(_)
Product(lists) ==
    IF lists = <<>> THEN << <<>> >>
    ELSE LET rest == Product(Tail(lists))
             first == Head(lists)
             nr == Len(rest)
         IN [k \in 1..(Len(first) * nr) |->
                << first[((k - 1) \div nr) + 1] >> \o rest[((k - 1) % nr) + 1]]

\* generate_points(spec.generators, spec.options): axis j scans
\* LinearPoints(j - 1, counts[j]).
generate_points(counts) ==
    Product([j \in 1..Len(counts) |-> LinearPoints(j - 1, counts[j])])

\* What the fragment's run_once pushes to its result channel, given the
\* parameter values it reads: their sum plus one.
RECURSIVE Sum(_)
Sum(s) == IF s = <<>> THEN 0 ELSE Head(s) + Sum(Tail(s))

run_once(params) == Sum(params) + One

\* ------------------------------------------------------------------ state

VARIABLES
    on_core,            \* is_kernel(self._fragment.run_once)
    axis_types,         \* a.param_schema["type"] of each axis
    spec_counts,        \* the scan specification: points per axis generator
    all_points,         \* the sequence generate_points returned (history)
    points,             \* the points iterator: what is left of it
    host_param,         \* axis.param_store value as seen by host code
    kernel_param,       \* axis.param_store value as seen by kernel code
    axis_sinks,         \* axis_sinks[i]: the values pushed to sink i
    result_sink,        \* values pushed to the fragment's result channel
    kscan_current_chunk,
    hpc,                \* where the host side is
    kpc,                \* where the kernel is
    param_values,       \* the kernel's tuple of lists param_values_0, ...
    ki,                 \* the kernel's loop index i (1-based)
    since_pause_check,  \* rtio counter minus last_pause_check_mu, saturated
    rpc_queue,          \* asynchronous RPCs issued and not yet served
    executed,           \* history: parameter values of each run_once call
    returns,            \* history: kernel returns on check_pause so far
    mid_chunk_return,   \* history: a kernel return left points in the loop
    last_chunk_raised,  \* history: last _kscan_param_values_chunk call raised
    host_setup_called,  \* history: the fragment's host_setup() has been called
    last_check,         \* history: check_pause() answer after the last point
    since_query,        \* history: device time since check_pause() was queried
    pushes_result,      \* the fragment's run_once pushes to its result channel
    warnings,           \* warnings the runner has logged
    run_no,             \* history: number of this run() call on the runner
    prev_chunk,         \* history: the chunk the previous run() left behind
    \* FragmentScanExperiment (src/ndscan/experiment.py)
    continuous_without_axes,  \* self._scan.continuous_without_axes
    spawns_kernel,      \* will_spawn_kernel(self.fragment.run_once)
    epc,                \* where run() / _run_single is
    first,              \* the local first of _continuous_loop
    point_phase,        \* self._point_phase
    phase_log,          \* values the dataset ndscan.point_phase was set to
    completed,          \* the dataset ndscan.completed
    exp_rpc,            \* _broadcast_point_phase RPCs issued and not served
    single_runs,        \* history: run_once calls of _continuous_loop
    last_check_pause,   \* history: last check_pause() answer in the loop
    last_pause,         \* history: how the last scheduler.pause() ended
    \* FragmentScanExperiment._run_scan
    scan_counts,        \* self._scan: points per axis generator
    exp_all_points,     \* the sequence generate_points returned (history)
    exp_points,         \* the points iterator: what is left of it
    exp_chunk,          \* self._kscan_current_chunk
    exp_param,          \* the axes' parameter store values
    exp_values,         \* the kernel's param_values_0, param_values_1
    exp_ki,             \* the kernel's loop index i (1-based)
    exp_kpc,            \* where the kernel is
    exp_queue,          \* asynchronous RPCs issued and not yet served
    exp_executed,       \* history: parameter values of each run_once call
    ds_axis,            \* the datasets ndscan.points.axis_i
    ds_channel,         \* the dataset ndscan.points.channel_ of the result
    empty_chunks        \* history: chunk requests that returned no point

runner_vars == <<on_core, axis_types, spec_counts, all_points, points,
                 host_param, kernel_param, axis_sinks, result_sink,
                 kscan_current_chunk, hpc, kpc, param_values, ki,
                 since_pause_check, rpc_queue, executed, returns,
                 mid_chunk_return, last_chunk_raised, host_setup_called,
                 last_check, since_query, pushes_result, warnings, run_no,
                 prev_chunk>>

scan_vars == <<scan_counts, exp_all_points, exp_points, exp_chunk, exp_param,
               exp_values, exp_ki, exp_kpc, exp_queue, exp_executed, ds_axis,
               ds_channel, empty_chunks>>

exp_vars == <<continuous_without_axes, spawns_kernel, epc, first, point_phase,
              phase_log, completed, exp_rpc, single_runs, last_check_pause,
              last_pause, scan_vars>>

vars == <<runner_vars, exp_vars>>

NumAxes == Len(axis_types)

\* Mutant of HasKscanImpl: a _kscan_impl_4 exists as well.
HasKscanImpl_UpTo4(num_dims) == num_dims \in {1, 2, 3, 4}

\* _kscan_impl_1, _kscan_impl_2 and _kscan_impl_3 exist.
HasKscanImpl(num_dims) == num_dims \in {1, 2, 3}

\* ------------------------------------------------------ host-side helpers

\* Mutant of PushAll: only the first sink is pushed to.
PushAll_FirstOnly(sinks, values) ==
    [i \in 1..Len(sinks) |->
        IF i = 1 /\ i <= Len(values) THEN Append(sinks[i], values[i])
        ELSE sinks[i]]

\* sink.push(value) for each (value, sink) of zip(values, sinks).
PushAll(sinks, values) ==
    [i \in 1..Len(sinks) |->
        IF i <= Len(values) THEN Append(sinks[i], values[i]) ELSE sinks[i]]

\* axis.param_store.set_value(value) for each (value, axis) of zip.
SetAll(stores, values) ==
    [i \in 1..Len(stores) |-> IF i <= Len(values) THEN values[i] ELSE stores[i]]

\* Mutant of Islice: CHUNK_SIZE items are taken whatever n is.
Islice_FullChunk(iter, n) ==
    LET take == Min(CHUNK_SIZE, Len(iter))
    IN [items |-> SubSeq(iter, 1, take),
        rest |-> SubSeq(iter, take + 1, Len(iter))]

\* islice(iterator, n): the first n items, and the iterator afterwards.
Islice(iter, n) ==
    LET take == Min(n, Len(iter))
    IN [items |-> SubSeq(iter, 1, take),
        rest |-> SubSeq(iter, take + 1, Len(iter))]

\* Mutant of KscanParamValuesChunk: the points just pulled are put in front
\* of those already in the chunk.
KscanParamValuesChunk_Prepend(chunk, iter) ==
    LET got == Islice(iter, CHUNK_SIZE - Len(chunk))
        new_chunk == got.items \o chunk
        values == [i \in 1..NumAxes |->
                     [k \in 1..Len(new_chunk) |->
                        coerce(axis_types[i], new_chunk[k][i])]]
    IN [chunk |-> new_chunk,
        iter |-> got.rest,
        values |-> values,
        raised |-> (values[1] = <<>>)]

\* Mutant of KscanParamValuesChunk: only the points just pulled from the
\* iterator are sent to the kernel, not those already in the chunk.
KscanParamValuesChunk_NewOnly(chunk, iter) ==
    LET got == Islice(iter, CHUNK_SIZE - Len(chunk))
        new_chunk == chunk \o got.items
        values == [i \in 1..NumAxes |->
                     [k \in 1..Len(got.items) |->
                        coerce(axis_types[i], got.items[k][i])]]
    IN [chunk |-> new_chunk,
        iter |-> got.rest,
        values |-> values,
        raised |-> (values[1] = <<>>)]

\* Mutant of KscanParamValuesChunk: ScanFinished is raised when the iterator
\* is exhausted, not when the chunk is empty.
KscanParamValuesChunk_RaiseOnExhausted(chunk, iter) ==
    LET got == Islice(iter, CHUNK_SIZE - Len(chunk))
        new_chunk == chunk \o got.items
        values == [i \in 1..NumAxes |->
                     [k \in 1..Len(new_chunk) |->
                        coerce(axis_types[i], new_chunk[k][i])]]
    IN [chunk |-> new_chunk,
        iter |-> got.rest,
        values |-> values,
        raised |-> (got.rest = <<>>)]

\* _kscan_param_values_chunk on chunk and iterator: the chunk topped up, the
\* iterator afterwards, the per-axis lists of coerced values, and whether
\* ScanFinished was raised instead of returning them.
KscanParamValuesChunk(chunk, iter) ==
    LET got == Islice(iter, CHUNK_SIZE - Len(chunk))
        new_chunk == chunk \o got.items
        values == [i \in 1..NumAxes |->
                     [k \in 1..Len(new_chunk) |->
                        coerce(axis_types[i], new_chunk[k][i])]]
    IN [chunk |-> new_chunk,
        iter |-> got.rest,
        values |-> values,
        raised |-> (values[1] = <<>>)]

\* Mutant of KscanUpdateHostParamStores: an empty chunk is left for the
\* kernel's next request to fill.
KscanUpdateHostParamStores_Lazy(chunk, iter, stores) ==
    IF chunk = <<>>
    THEN [chunk |-> chunk, iter |-> iter, stores |-> stores,
          called |-> FALSE, raised |-> FALSE]
    ELSE [chunk |-> chunk, iter |-> iter,
          stores |-> SetAll(stores, chunk[1]),
          called |-> FALSE, raised |-> FALSE]

\* _kscan_update_host_param_stores: refill an empty chunk, then set the host
\* parameter stores to the chunk's first point.  called: whether
\* _kscan_param_values_chunk was called; raised: whether it raised.
KscanUpdateHostParamStores(chunk, iter, stores) ==
    IF chunk = <<>>
    THEN LET r == KscanParamValuesChunk(chunk, iter)
         IN IF r.raised
            THEN [chunk |-> r.chunk, iter |-> r.iter, stores |-> stores,
                  called |-> TRUE, raised |-> TRUE]
            ELSE [chunk |-> r.chunk, iter |-> r.iter,
                  stores |-> SetAll(stores, r.chunk[1]),
                  called |-> TRUE, raised |-> FALSE]
    ELSE [chunk |-> chunk, iter |-> iter,
          stores |-> SetAll(stores, chunk[1]),
          called |-> FALSE, raised |-> FALSE]

\* ------------------------------------------------------------------- Init

\* Scan specifications tried: the first axis has up to MaxPoints points, the
\* others one or two; at most MaxPoints points in all.
RECURSIVE Size(_)
Size(counts) == IF counts = <<>> THEN 1 ELSE Head(counts) * Size(Tail(counts))

SpecCountsUpTo(n, max_points) ==
    {c \in [1..n -> 0..max_points] :
        /\ \A j \in 2..n : c[j] \in {1, 2}
        /\ Size(c) <= max_points}

SpecCounts(n) == SpecCountsUpTo(n, MaxPoints)

\* A constructed ScanRunner, its fragment and the arguments of the first
\* run(): up to max_axes axes of one type, a specification of up to
\* max_points points, default parameter values, empty sinks.
RunnerInit(max_axes, max_points, pushes) ==
    /\ on_core \in BOOLEAN
    /\ \E n \in 0..max_axes :
          /\ \E t \in {"float", "int"} : axis_types = [j \in 1..n |-> t]
          /\ spec_counts \in SpecCountsUpTo(n, max_points)
          /\ host_param = [j \in 1..n |-> ParamDefault]
          /\ kernel_param = [j \in 1..n |-> ParamDefault]
          /\ axis_sinks = [j \in 1..n |-> <<>>]
          /\ param_values = [j \in 1..n |-> <<>>]
    /\ pushes_result \in pushes
    /\ host_setup_called = FALSE
    /\ last_check = "none"
    /\ since_query = 0
    /\ warnings = 0
    /\ run_no = 1
    /\ prev_chunk = <<>>
    /\ all_points = <<>>
    /\ points = <<>>
    /\ result_sink = <<>>
    /\ kscan_current_chunk = <<>>
    /\ hpc = "idle"
    /\ kpc = "off"
    /\ ki = 0
    /\ since_pause_check = 0
    /\ rpc_queue = <<>>
    /\ executed = <<>>
    /\ returns = 0
    /\ mid_chunk_return = FALSE
    /\ last_chunk_raised = FALSE

\* No FragmentScanExperiment has been built.
ExpUnused ==
    /\ continuous_without_axes = FALSE
    /\ spawns_kernel = FALSE
    /\ epc = "unused"
    /\ first = FALSE
    /\ point_phase = FALSE
    /\ phase_log = <<>>
    /\ completed = FALSE
    /\ exp_rpc = 0
    /\ single_runs = 0
    /\ last_check_pause = "none"
    /\ last_pause = "none"
    /\ scan_counts = <<>>
    /\ exp_all_points = <<>>
    /\ exp_points = <<>>
    /\ exp_chunk = <<>>
    /\ exp_param = <<>>
    /\ exp_values = <<>>
    /\ exp_ki = 0
    /\ exp_kpc = "off"
    /\ exp_queue = <<>>
    /\ exp_executed = <<>>
    /\ ds_axis = <<>>
    /\ ds_channel = <<>>
    /\ empty_chunks = 0

\* A runner whose fragment pushes one result per run_once, before its first
\* run().
Init == RunnerInit(MaxAxes, MaxPoints, {TRUE}) /\ ExpUnused

\* -------------------------------------------------------------- ScanRunner

\* Mutant of Run: _kscan_current_chunk is not emptied at the start of
\* _run_scan_on_core_device.
Run_KeepChunk ==
    /\ hpc = "idle"
    /\ all_points' = generate_points(spec_counts)
    /\ points' = generate_points(spec_counts)
    /\ hpc' = IF ~on_core THEN "host_next"
              ELSE IF HasKscanImpl(NumAxes) THEN "core_prime"
              ELSE "NotImplementedError"
    /\ UNCHANGED <<on_core, axis_types, spec_counts, host_param, kernel_param,
                   axis_sinks, result_sink, kpc, param_values, ki,
                   since_pause_check, rpc_queue, executed, returns,
                   mid_chunk_return, last_chunk_raised, kscan_current_chunk,
                   host_setup_called, last_check, since_query, pushes_result,
                   warnings, run_no, prev_chunk, exp_vars>>

\* run(): generate the points and enter _run_scan_on_host, or
\* _run_scan_on_core_device up to its choice of scan_impl.
Run ==
    /\ hpc = "idle"
    /\ all_points' = generate_points(spec_counts)
    /\ points' = generate_points(spec_counts)
    /\ kscan_current_chunk' = IF on_core THEN <<>> ELSE kscan_current_chunk
    /\ hpc' = IF ~on_core THEN "host_next"
              ELSE IF HasKscanImpl(NumAxes) THEN "core_prime"
              ELSE "NotImplementedError"
    /\ UNCHANGED <<on_core, axis_types, spec_counts, host_param, kernel_param,
                   axis_sinks, result_sink, kpc, param_values, ki,
                   since_pause_check, rpc_queue, executed, returns,
                   mid_chunk_return, last_chunk_raised,
                   host_setup_called, last_check, since_query, pushes_result,
                   warnings, run_no, prev_chunk, exp_vars>>

\* Mutant of HostNextPoint: scheduler.pause() is called once the point is
\* set and pushed, before run_once.
HostNextPoint_PauseBeforeRun ==
    /\ hpc = "host_next"
    /\ IF points = <<>>
       THEN /\ hpc' = "returned"
            /\ UNCHANGED <<points, host_param, axis_sinks>>
       ELSE /\ points' = Tail(points)
            /\ host_param' = SetAll(host_param, Head(points))
            /\ axis_sinks' = PushAll(axis_sinks, Head(points))
            /\ hpc' = "host_pause"
    /\ UNCHANGED <<on_core, axis_types, spec_counts, all_points, kernel_param,
                   result_sink, kscan_current_chunk, kpc, param_values, ki,
                   since_pause_check, rpc_queue, executed, returns,
                   mid_chunk_return, last_chunk_raised,
                   host_setup_called, last_check, since_query, pushes_result,
                   warnings, run_no, prev_chunk, exp_vars>>

\* Mutant of HostNextPoint: the coordinates are not pushed before run_once.
HostNextPoint_NoPush ==
    /\ hpc = "host_next"
    /\ IF points = <<>>
       THEN /\ hpc' = "returned"
            /\ UNCHANGED <<points, host_param>>
       ELSE /\ points' = Tail(points)
            /\ host_param' = SetAll(host_param, Head(points))
            /\ hpc' = "host_run"
    /\ UNCHANGED <<on_core, axis_types, spec_counts, all_points, kernel_param,
                   axis_sinks, result_sink, kscan_current_chunk, kpc,
                   param_values, ki, since_pause_check, rpc_queue, executed,
                   returns, mid_chunk_return, last_chunk_raised,
                   host_setup_called, last_check, since_query, pushes_result,
                   warnings, run_no, prev_chunk, exp_vars>>

\* _run_scan_on_host: next(points, None), break, or set and push each axis.
HostNextPoint ==
    /\ hpc = "host_next"
    /\ IF points = <<>>
       THEN /\ hpc' = "returned"
            /\ UNCHANGED <<points, host_param, axis_sinks>>
       ELSE /\ points' = Tail(points)
            /\ host_param' = SetAll(host_param, Head(points))
            /\ axis_sinks' = PushAll(axis_sinks, Head(points))
            /\ hpc' = "host_run"
    /\ UNCHANGED <<on_core, axis_types, spec_counts, all_points, kernel_param,
                   result_sink, kscan_current_chunk, kpc, param_values, ki,
                   since_pause_check, rpc_queue, executed, returns,
                   mid_chunk_return, last_chunk_raised,
                   host_setup_called, last_check, since_query, pushes_result,
                   warnings, run_no, prev_chunk, exp_vars>>

\* _run_scan_on_host: host_setup(), device_setup(), run_once().
HostRunOnce ==
    /\ hpc = "host_run"
    /\ host_setup_called' = TRUE
    /\ executed' = Append(executed, host_param)
    /\ result_sink' = IF pushes_result
                      THEN Append(result_sink, run_once(host_param))
                      ELSE result_sink
    /\ hpc' = "host_pause"
    /\ UNCHANGED <<on_core, axis_types, spec_counts, all_points, points,
                   host_param, kernel_param, axis_sinks, kscan_current_chunk,
                   kpc, param_values, ki, since_pause_check, rpc_queue,
                   returns, mid_chunk_return, last_chunk_raised,
                   last_check, since_query, pushes_result, warnings,
                   run_no, prev_chunk, exp_vars>>

\* Mutant of HostPause: a TerminationRequested raised by scheduler.pause()
\* is suppressed and the run returns.
HostPause_Suppress ==
    /\ hpc = "host_pause"
    /\ \E terminate \in BOOLEAN :
          hpc' = IF terminate THEN "returned" ELSE "host_next"
    /\ UNCHANGED <<on_core, axis_types, spec_counts, all_points, points,
                   host_param, kernel_param, axis_sinks, result_sink,
                   kscan_current_chunk, kpc, param_values, ki,
                   since_pause_check, rpc_queue, executed, returns,
                   mid_chunk_return, last_chunk_raised,
                   host_setup_called, last_check, since_query, pushes_result,
                   warnings, run_no, prev_chunk, exp_vars>>

\* _run_scan_on_host: scheduler.pause() returns, or raises
\* TerminationRequested.
HostPause ==
    /\ hpc = "host_pause"
    /\ \E terminate \in BOOLEAN :
          hpc' = IF terminate THEN "TerminationRequested" ELSE "host_next"
    /\ UNCHANGED <<on_core, axis_types, spec_counts, all_points, points,
                   host_param, kernel_param, axis_sinks, result_sink,
                   kscan_current_chunk, kpc, param_values, ki,
                   since_pause_check, rpc_queue, executed, returns,
                   mid_chunk_return, last_chunk_raised,
                   host_setup_called, last_check, since_query, pushes_result,
                   warnings, run_no, prev_chunk, exp_vars>>

\* _run_scan_on_core_device: the first _kscan_update_host_param_stores().
\* A ScanFinished it raised would leave the with block.
CorePrime ==
    /\ hpc = "core_prime"
    /\ LET r == KscanUpdateHostParamStores(kscan_current_chunk, points,
                                           host_param)
       IN /\ kscan_current_chunk' = r.chunk
          /\ points' = r.iter
          /\ host_param' = r.stores
          /\ last_chunk_raised' = IF r.called THEN r.raised
                                  ELSE last_chunk_raised
          /\ hpc' = "core_launch"
    /\ UNCHANGED <<on_core, axis_types, spec_counts, all_points, kernel_param,
                   axis_sinks, result_sink, kpc, param_values, ki,
                   since_pause_check, rpc_queue, executed, returns,
                   mid_chunk_return,
                   host_setup_called, last_check, since_query, pushes_result,
                   warnings, run_no, prev_chunk, exp_vars>>

\* Mutant of CoreLaunch: the chunk is emptied before every launch.
CoreLaunch_ResetChunk ==
    /\ hpc = "core_launch"
    /\ hpc' = "core_serving"
    /\ kpc' = "chunk"
    /\ since_pause_check' = 0
    /\ host_setup_called' = TRUE
    /\ last_check' = "none"
    /\ since_query' = 0
    /\ kscan_current_chunk' = <<>>
    /\ UNCHANGED <<on_core, axis_types, spec_counts, all_points, points,
                   host_param, kernel_param, axis_sinks, result_sink,
                   param_values, ki, rpc_queue, executed, returns,
                   mid_chunk_return, last_chunk_raised,
                   pushes_result, warnings, run_no, prev_chunk, exp_vars>>

\* _run_scan_on_core_device: host_setup() and the call of scan_impl();
\* the kernel starts and reads the rtio counter.
CoreLaunch ==
    /\ hpc = "core_launch"
    /\ hpc' = "core_serving"
    /\ kpc' = "chunk"
    /\ since_pause_check' = 0
    /\ host_setup_called' = TRUE
    /\ last_check' = "none"
    /\ since_query' = 0
    /\ UNCHANGED <<on_core, axis_types, spec_counts, all_points, points,
                   host_param, kernel_param, axis_sinks, result_sink,
                   kscan_current_chunk, param_values, ki, rpc_queue, executed,
                   returns, mid_chunk_return, last_chunk_raised,
                   pushes_result, warnings, run_no, prev_chunk, exp_vars>>

\* _kscan_impl_N: the synchronous RPC _kscan_param_values_chunk().  A
\* ScanFinished raised by it ends the kernel and leaves the with block of
\* _run_scan_on_core_device, which returns.
KernelChunk ==
    /\ kpc = "chunk"
    /\ rpc_queue = <<>>
    /\ LET r == KscanParamValuesChunk(kscan_current_chunk, points)
       IN /\ kscan_current_chunk' = r.chunk
          /\ points' = r.iter
          /\ last_chunk_raised' = r.raised
          /\ IF r.raised
             THEN /\ kpc' = "off"
                  /\ hpc' = "returned"
                  /\ UNCHANGED <<param_values, ki>>
             ELSE /\ param_values' = r.values
                  /\ ki' = 1
                  /\ kpc' = "set"
                  /\ UNCHANGED hpc
    /\ UNCHANGED <<on_core, axis_types, spec_counts, all_points, host_param,
                   kernel_param, axis_sinks, result_sink, since_pause_check,
                   rpc_queue, executed, returns, mid_chunk_return,
                   host_setup_called, last_check, since_query, pushes_result,
                   warnings, run_no, prev_chunk, exp_vars>>

\* _kscan_impl_N: self._kscan_param_setter_j(param_values_j[i]) for each axis.
KernelSetParams ==
    /\ kpc = "set"
    /\ kernel_param' = [j \in 1..NumAxes |-> param_values[j][ki]]
    /\ kpc' = "run"
    /\ UNCHANGED <<on_core, axis_types, spec_counts, all_points, points,
                   host_param, axis_sinks, result_sink, kscan_current_chunk,
                   hpc, param_values, ki, since_pause_check, rpc_queue,
                   executed, returns, mid_chunk_return, last_chunk_raised,
                   host_setup_called, last_check, since_query, pushes_result,
                   warnings, run_no, prev_chunk, exp_vars>>

\* _kscan_run_fragment_once: device_setup() and run_once(), which pushes its
\* result to the host; d is the device time the point took.
KernelRunFragmentOnce ==
    /\ kpc = "run"
    /\ Len(rpc_queue) < MaxRpcQueue
    /\ \E d \in 1..(kscan_pause_check_interval_mu + 1) :
          /\ since_pause_check' =
                 Min(since_pause_check + d, kscan_pause_check_interval_mu + 1)
          /\ since_query' =
                 Min(since_query + d, kscan_pause_check_interval_mu + 1)
    /\ executed' = Append(executed, kernel_param)
    /\ rpc_queue' = IF pushes_result
                    THEN Append(rpc_queue, [rpc |-> "push",
                                            value |-> run_once(kernel_param)])
                    ELSE rpc_queue
    /\ kpc' = "completed"
    /\ UNCHANGED <<on_core, axis_types, spec_counts, all_points, points,
                   host_param, kernel_param, axis_sinks, result_sink,
                   kscan_current_chunk, hpc, param_values, ki, returns,
                   mid_chunk_return, last_chunk_raised,
                   host_setup_called, last_check, pushes_result, warnings,
                   run_no, prev_chunk, exp_vars>>

\* Mutant of KernelPointCompleted: the kernel acknowledges each point twice.
KernelPointCompleted_Twice ==
    /\ kpc = "completed"
    /\ Len(rpc_queue) + 1 < MaxRpcQueue
    /\ rpc_queue' = rpc_queue \o
                       <<[rpc |-> "_kscan_point_completed", value |-> 0],
                         [rpc |-> "_kscan_point_completed", value |-> 0]>>
    /\ kpc' = "pause_check"
    /\ last_check' = "none"
    /\ UNCHANGED <<on_core, axis_types, spec_counts, all_points, points,
                   host_param, kernel_param, axis_sinks, result_sink,
                   kscan_current_chunk, hpc, param_values, ki,
                   since_pause_check, executed, returns, mid_chunk_return,
                   last_chunk_raised,
                   host_setup_called, since_query, pushes_result, warnings,
                   run_no, prev_chunk, exp_vars>>

\* _kscan_impl_N: the asynchronous RPC self._kscan_point_completed().
KernelPointCompleted ==
    /\ kpc = "completed"
    /\ Len(rpc_queue) < MaxRpcQueue
    /\ rpc_queue' = Append(rpc_queue,
                           [rpc |-> "_kscan_point_completed", value |-> 0])
    /\ kpc' = "pause_check"
    /\ last_check' = "none"
    /\ UNCHANGED <<on_core, axis_types, spec_counts, all_points, points,
                   host_param, kernel_param, axis_sinks, result_sink,
                   kscan_current_chunk, hpc, param_values, ki,
                   since_pause_check, executed, returns, mid_chunk_return,
                   last_chunk_raised,
                   host_setup_called, since_query, pushes_result, warnings,
                   run_no, prev_chunk, exp_vars>>

\* The kernel's next loop position after point i.
KernelAdvance ==
    IF ki < Len(param_values[1])
    THEN /\ ki' = ki + 1
         /\ kpc' = "set"
    ELSE /\ ki' = ki
         /\ kpc' = "chunk"

\* Mutant of KernelPauseCheck: last_pause_check_mu is not set to the current
\* time after a check_pause() that returned False.
KernelPauseCheck_NoReset ==
    /\ kpc = "pause_check"
    /\ IF since_pause_check > kscan_pause_check_interval_mu
       THEN /\ rpc_queue = <<>>
            /\ \E check_pause \in BOOLEAN :
                  IF check_pause
                  THEN /\ kpc' = "off"
                       /\ hpc' = "core_pause"
                       /\ returns' = returns + 1
                       /\ mid_chunk_return' =
                              (mid_chunk_return \/ ki < Len(param_values[1]))
                       /\ last_check' = "true"
                       /\ since_query' = 0
                       /\ UNCHANGED <<ki, since_pause_check>>
                  ELSE /\ last_check' = "false"
                       /\ since_query' = 0
                       /\ KernelAdvance
                       /\ UNCHANGED <<hpc, returns, mid_chunk_return,
                                      since_pause_check>>
       ELSE /\ KernelAdvance
            /\ UNCHANGED <<hpc, returns, mid_chunk_return, since_pause_check,
                           last_check, since_query>>
    /\ UNCHANGED <<on_core, axis_types, spec_counts, all_points, points,
                   host_param, kernel_param, axis_sinks, result_sink,
                   kscan_current_chunk, param_values, rpc_queue, executed,
                   last_chunk_raised,
                   host_setup_called, pushes_result, warnings, run_no,
                   prev_chunk, exp_vars>>

\* Mutant of KernelPauseCheck: the kernel returns on a pause without the
\* host having served the RPCs still in flight.
KernelPauseCheck_NoDrain ==
    /\ kpc = "pause_check"
    /\ IF since_pause_check > kscan_pause_check_interval_mu
       THEN \E check_pause \in BOOLEAN :
                  IF check_pause
                  THEN /\ kpc' = "off"
                       /\ hpc' = "core_pause"
                       /\ returns' = returns + 1
                       /\ mid_chunk_return' =
                              (mid_chunk_return \/ ki < Len(param_values[1]))
                       /\ last_check' = "true"
                       /\ since_query' = 0
                       /\ UNCHANGED <<ki, since_pause_check>>
                  ELSE /\ since_pause_check' = 0
                       /\ last_check' = "false"
                       /\ since_query' = 0
                       /\ KernelAdvance
                       /\ UNCHANGED <<hpc, returns, mid_chunk_return>>
       ELSE /\ KernelAdvance
            /\ UNCHANGED <<hpc, returns, mid_chunk_return, since_pause_check,
                           last_check, since_query>>
    /\ UNCHANGED <<on_core, axis_types, spec_counts, all_points, points,
                   host_param, kernel_param, axis_sinks, result_sink,
                   kscan_current_chunk, param_values, rpc_queue, executed,
                   last_chunk_raised,
                   host_setup_called, pushes_result, warnings, run_no,
                   prev_chunk, exp_vars>>

\* _kscan_impl_N: the pause check after a point.  scheduler.check_pause() is
\* a synchronous RPC; on True the kernel returns and the host goes on to
\* core.comm.close() and scheduler.pause().
KernelPauseCheck ==
    /\ kpc = "pause_check"
    /\ IF since_pause_check > kscan_pause_check_interval_mu
       THEN /\ rpc_queue = <<>>
            /\ \E check_pause \in BOOLEAN :
                  IF check_pause
                  THEN /\ kpc' = "off"
                       /\ hpc' = "core_pause"
                       /\ returns' = returns + 1
                       /\ mid_chunk_return' =
                              (mid_chunk_return \/ ki < Len(param_values[1]))
                       /\ last_check' = "true"
                       /\ since_query' = 0
                       /\ UNCHANGED <<ki, since_pause_check>>
                  ELSE /\ since_pause_check' = 0
                       /\ last_check' = "false"
                       /\ since_query' = 0
                       /\ KernelAdvance
                       /\ UNCHANGED <<hpc, returns, mid_chunk_return>>
       ELSE /\ KernelAdvance
            /\ UNCHANGED <<hpc, returns, mid_chunk_return, since_pause_check,
                           last_check, since_query>>
    /\ UNCHANGED <<on_core, axis_types, spec_counts, all_points, points,
                   host_param, kernel_param, axis_sinks, result_sink,
                   kscan_current_chunk, param_values, rpc_queue, executed,
                   last_chunk_raised,
                   host_setup_called, pushes_result, warnings, run_no,
                   prev_chunk, exp_vars>>

\* The host serves the asynchronous RPC of a result channel push.
ServePush ==
    /\ hpc = "core_serving"
    /\ rpc_queue # <<>>
    /\ Head(rpc_queue).rpc = "push"
    /\ result_sink' = Append(result_sink, Head(rpc_queue).value)
    /\ rpc_queue' = Tail(rpc_queue)
    /\ UNCHANGED <<on_core, axis_types, spec_counts, all_points, points,
                   host_param, kernel_param, axis_sinks, kscan_current_chunk,
                   hpc, kpc, param_values, ki, since_pause_check, executed,
                   returns, mid_chunk_return, last_chunk_raised,
                   host_setup_called, last_check, since_query, pushes_result,
                   warnings, run_no, prev_chunk, exp_vars>>

\* Mutant of PopHead: pop() instead of pop(0).
PopHead_Last(chunk) ==
    [value |-> chunk[Len(chunk)], rest |-> SubSeq(chunk, 1, Len(chunk) - 1)]

\* self._kscan_current_chunk.pop(0): the value popped and the list left.
PopHead(chunk) == [value |-> Head(chunk), rest |-> Tail(chunk)]

\* The host serves _kscan_point_completed: pop the chunk head, push its
\* values to the axis sinks, _kscan_update_host_param_stores().  pop(0) on
\* an empty list raises IndexError, which ends the run.
ServePointCompleted ==
    /\ hpc = "core_serving"
    /\ rpc_queue # <<>>
    /\ Head(rpc_queue).rpc = "_kscan_point_completed"
    /\ IF kscan_current_chunk = <<>>
       THEN /\ hpc' = "IndexError"
            /\ kpc' = "off"
            /\ UNCHANGED <<axis_sinks, kscan_current_chunk, points, host_param,
                           last_chunk_raised>>
       ELSE LET popped == PopHead(kscan_current_chunk)
                r == KscanUpdateHostParamStores(popped.rest, points,
                                                host_param)
            IN /\ axis_sinks' = PushAll(axis_sinks, popped.value)
               /\ kscan_current_chunk' = r.chunk
               /\ points' = r.iter
               /\ host_param' = r.stores
               /\ last_chunk_raised' = IF r.called THEN r.raised
                                       ELSE last_chunk_raised
               /\ UNCHANGED <<hpc, kpc>>
    /\ rpc_queue' = Tail(rpc_queue)
    /\ UNCHANGED <<on_core, axis_types, spec_counts, all_points, kernel_param,
                   result_sink, param_values, ki, since_pause_check,
                   executed, returns, mid_chunk_return,
                   host_setup_called, last_check, since_query, pushes_result,
                   warnings, run_no, prev_chunk, exp_vars>>

\* _run_scan_on_core_device: core.comm.close() and scheduler.pause(), which
\* returns (the loop launches the kernel again) or raises
\* TerminationRequested.
CorePause ==
    /\ hpc = "core_pause"
    /\ \E terminate \in BOOLEAN :
          hpc' = IF terminate THEN "TerminationRequested" ELSE "core_launch"
    /\ UNCHANGED <<on_core, axis_types, spec_counts, all_points, points,
                   host_param, kernel_param, axis_sinks, result_sink,
                   kscan_current_chunk, kpc, param_values, ki,
                   since_pause_check, rpc_queue, executed, returns,
                   mid_chunk_return, last_chunk_raised,
                   host_setup_called, last_check, since_query, pushes_result,
                   warnings, run_no, prev_chunk, exp_vars>>

Next ==
    \/ Run
    \/ HostNextPoint
    \/ HostRunOnce
    \/ HostPause
    \/ CorePrime
    \/ CoreLaunch
    \/ KernelChunk
    \/ KernelSetParams
    \/ KernelRunFragmentOnce
    \/ KernelPointCompleted
    \/ KernelPauseCheck
    \/ ServePush
    \/ ServePointCompleted
    \/ CorePause

Spec == Init /\ [][Next]_vars

\* ------------------------------------------- several runs on one runner

\* The caller of a run that has ended (returned, or raised
\* TerminationRequested) prepares the next run() on the same ScanRunner and
\* fragment: a new specification for the same axes and new, empty sinks.
\* The runner's attributes and the parameter stores are as the last run left
\* them; the kernel's locals are gone, and the histories start over.
RunAgain ==
    /\ hpc \in {"returned", "TerminationRequested"}
    /\ run_no < MaxRuns
    /\ run_no' = run_no + 1
    /\ prev_chunk' = kscan_current_chunk
    /\ spec_counts' \in SpecCountsUpTo(NumAxes, MaxRerunPoints)
    /\ axis_sinks' = [j \in 1..NumAxes |-> <<>>]
    /\ result_sink' = <<>>
    /\ param_values' = [j \in 1..NumAxes |-> <<>>]
    /\ ki' = 0
    /\ since_pause_check' = 0
    /\ since_query' = 0
    /\ last_check' = "none"
    /\ executed' = <<>>
    /\ returns' = 0
    /\ mid_chunk_return' = FALSE
    /\ last_chunk_raised' = FALSE
    /\ host_setup_called' = FALSE
    /\ hpc' = "idle"
    /\ UNCHANGED <<on_core, axis_types, all_points, points, host_param,
                   kernel_param, kscan_current_chunk, kpc, rpc_queue,
                   pushes_result, warnings, exp_vars>>

\* A runner with short scans of up to MaxRerunAxes axes, whose fragment does
\* or does not push a result per run_once.
InitRerun == RunnerInit(MaxRerunAxes, MaxRerunPoints, BOOLEAN) /\ ExpUnused

NextRerun == Next \/ RunAgain

SpecRerun == InitRerun /\ [][NextRerun]_vars

\* ------------------------------------------------- FragmentScanExperiment
\*
\* run() without scan axes: _run_single and _continuous_loop.  With a kernel
\* run_once the loop runs on the core device: check_pause() is a synchronous
\* RPC, _broadcast_point_phase an asynchronous one, and the kernel call
\* returns to the host once every RPC has been served.

\* No ScanRunner is in use.
RunnerUnused ==
    /\ on_core = FALSE
    /\ axis_types = <<>>
    /\ spec_counts = <<>>
    /\ all_points = <<>>
    /\ points = <<>>
    /\ host_param = <<>>
    /\ kernel_param = <<>>
    /\ axis_sinks = <<>>
    /\ result_sink = <<>>
    /\ kscan_current_chunk = <<>>
    /\ hpc = "unused"
    /\ kpc = "off"
    /\ param_values = <<>>
    /\ ki = 0
    /\ since_pause_check = 0
    /\ rpc_queue = <<>>
    /\ executed = <<>>
    /\ returns = 0
    /\ mid_chunk_return = FALSE
    /\ last_chunk_raised = FALSE
    /\ host_setup_called = FALSE
    /\ last_check = "none"
    /\ since_query = 0
    /\ pushes_result = TRUE
    /\ warnings = 0
    /\ run_no = 1
    /\ prev_chunk = <<>>

\* A prepared experiment: a scan without axes, continuous or not, or a scan
\* over up to MaxScanAxes axes, each parameter store holding the first point
\* of its generator.
ExpInit ==
    /\ RunnerUnused
    /\ continuous_without_axes \in BOOLEAN
    /\ spawns_kernel \in BOOLEAN
    /\ epc = "idle"
    /\ first = FALSE
    /\ point_phase = FALSE
    /\ phase_log = <<>>
    /\ completed = FALSE
    /\ exp_rpc = 0
    /\ single_runs = 0
    /\ last_check_pause = "none"
    /\ last_pause = "none"
    /\ \E n \in 0..MaxScanAxes :
          /\ scan_counts \in {c \in SpecCountsUpTo(n, MaxPoints) :
                                 \A j \in 1..n : c[j] >= 1}
          /\ exp_param = [j \in 1..n |-> LinearPoints(j - 1, 1)[1]]
          /\ exp_values = [j \in 1..n |-> <<>>]
          /\ ds_axis = [j \in 1..n |-> <<>>]
          /\ (n > 0 => continuous_without_axes)
    /\ exp_all_points = <<>>
    /\ exp_points = <<>>
    /\ exp_chunk = <<>>
    /\ exp_ki = 0
    /\ exp_kpc = "off"
    /\ exp_queue = <<>>
    /\ exp_executed = <<>>
    /\ ds_channel = <<>>
    /\ empty_chunks = 0

\* run(): _broadcast_metadata() sets ndscan.completed to False; then
\* _run_single() if the scan has no axes, else _run_scan().
ExpRun ==
    /\ epc = "idle"
    /\ completed' = FALSE
    /\ epc' = IF scan_counts = <<>> THEN "host_setup" ELSE "scan_setup"
    /\ UNCHANGED <<continuous_without_axes, spawns_kernel, first, point_phase,
                   phase_log, exp_rpc, single_runs, last_check_pause,
                   last_pause, runner_vars, scan_vars>>

\* _run_single: host_setup(), _point_phase = False, and the entry of
\* _continuous_loop (on the host, or in _run_continuous_kernel).
SingleHostSetup ==
    /\ epc = "host_setup"
    /\ point_phase' = FALSE
    /\ first' = TRUE
    /\ epc' = "check_pause"
    /\ UNCHANGED <<continuous_without_axes, spawns_kernel, phase_log,
                   completed, exp_rpc, single_runs, last_check_pause,
                   last_pause, runner_vars, scan_vars>>

\* _continuous_loop: while not self.scheduler.check_pause().
SingleCheckPause ==
    /\ epc = "check_pause"
    /\ exp_rpc = 0
    /\ \E check_pause \in BOOLEAN :
          /\ last_check_pause' = IF check_pause THEN "true" ELSE "false"
          /\ epc' = IF check_pause THEN "loop_exit" ELSE "body"
    /\ UNCHANGED <<continuous_without_axes, spawns_kernel, first, point_phase,
                   phase_log, completed, exp_rpc, single_runs, last_pause,
                   runner_vars, scan_vars>>

\* _broadcast_point_phase: flip _point_phase and set the dataset to it.
BroadcastPointPhase ==
    /\ point_phase' = ~point_phase
    /\ phase_log' = Append(phase_log, ~point_phase)

\* _continuous_loop body: device_setup() or device_reset(), run_once(),
\* _broadcast_point_phase() (queued when issued by the kernel), and the
\* return of a loop that is not continuous.
SingleRunOnce ==
    /\ epc = "body"
    /\ single_runs < MaxSingleRuns
    /\ first' = FALSE
    /\ single_runs' = single_runs + 1
    /\ IF spawns_kernel
       THEN /\ exp_rpc < MaxRpcQueue
            /\ exp_rpc' = exp_rpc + 1
            /\ UNCHANGED <<point_phase, phase_log>>
       ELSE /\ BroadcastPointPhase
            /\ UNCHANGED exp_rpc
    /\ epc' = IF continuous_without_axes THEN "check_pause" ELSE "loop_exit"
    /\ UNCHANGED <<continuous_without_axes, spawns_kernel, completed,
                   last_check_pause, last_pause, runner_vars, scan_vars>>

\* The host serves a _broadcast_point_phase RPC of the kernel.
ServePointPhase ==
    /\ spawns_kernel
    /\ exp_rpc > 0
    /\ epc \in {"check_pause", "body", "loop_exit"}
    /\ BroadcastPointPhase
    /\ exp_rpc' = exp_rpc - 1
    /\ UNCHANGED <<continuous_without_axes, spawns_kernel, epc, first,
                   completed, single_runs, last_check_pause, last_pause,
                   runner_vars, scan_vars>>

\* _run_single after the loop: the kernel call has returned (comm.close());
\* return if not continuous_without_axes, else go on to scheduler.pause().
SingleLoopExit ==
    /\ epc = "loop_exit"
    /\ exp_rpc = 0
    /\ epc' = IF continuous_without_axes THEN "pause" ELSE "finally"
    /\ UNCHANGED <<continuous_without_axes, spawns_kernel, first, point_phase,
                   phase_log, completed, exp_rpc, single_runs,
                   last_check_pause, last_pause, runner_vars, scan_vars>>

\* Mutant of SinglePause: _run_single returns once scheduler.pause() has
\* returned.
SinglePause_ReturnWhenResumed ==
    /\ epc = "pause"
    /\ \E terminate \in BOOLEAN :
          /\ last_pause' = IF terminate THEN "terminated" ELSE "resumed"
          /\ epc' = "finally"
    /\ UNCHANGED <<continuous_without_axes, spawns_kernel, first, point_phase,
                   phase_log, completed, exp_rpc, single_runs,
                   last_check_pause, runner_vars, scan_vars>>

\* _run_single: scheduler.pause() returns and the while loop starts over, or
\* raises TerminationRequested, which the with block suppresses.
SinglePause ==
    /\ epc = "pause"
    /\ \E terminate \in BOOLEAN :
          /\ last_pause' = IF terminate THEN "terminated" ELSE "resumed"
          /\ epc' = IF terminate THEN "finally" ELSE "host_setup"
    /\ UNCHANGED <<continuous_without_axes, spawns_kernel, first, point_phase,
                   phase_log, completed, exp_rpc, single_runs,
                   last_check_pause, runner_vars, scan_vars>>

\* _run_single: finally: self._set_completed().
SingleFinally ==
    /\ epc = "finally"
    /\ completed' = TRUE
    /\ epc' = "run_end"
    /\ UNCHANGED <<continuous_without_axes, spawns_kernel, first, point_phase,
                   phase_log, exp_rpc, single_runs, last_check_pause,
                   last_pause, runner_vars, scan_vars>>

\* run(): the closing self._set_completed().
ExpRunEnd ==
    /\ epc = "run_end"
    /\ completed' = TRUE
    /\ epc' = "done"
    /\ UNCHANGED <<continuous_without_axes, spawns_kernel, first, point_phase,
                   phase_log, exp_rpc, single_runs, last_check_pause,
                   last_pause, runner_vars, scan_vars>>

\* ------------------------------------- FragmentScanExperiment._run_scan

ExpNumAxes == Len(scan_counts)

\* _kscan_impl_1 and _kscan_impl_2 exist.
ExpHasKscanImpl(num_dims) == num_dims \in {1, 2}

\* The list that values[i].append(v) builds for every p of the chunk and
\* every (i, v) of enumerate(p) when all values[i] are one and the same list:
\* the coordinates of the chunk's points, point after point.
AppendedToSharedList(chunk, n) ==
    [k \in 1..(Len(chunk) * n) |-> chunk[((k - 1) \div n) + 1][((k - 1) % n) + 1]]

\* FragmentScanExperiment._kscan_param_values_chunk on chunk and iterator:
\* the chunk topped up, the iterator afterwards, the tuple returned, and
\* the values appended to each dataset ndscan.points.axis_i.  The tuple is
\* ([],) * len(axes): the same list at every position.
ExpKscanParamValuesChunk(chunk, iter) ==
    LET got == Islice(iter, CHUNK_SIZE - Len(chunk))
        new_chunk == chunk \o got.items
        shared == AppendedToSharedList(new_chunk, ExpNumAxes)
    IN [chunk |-> new_chunk,
        iter |-> got.rest,
        values |-> [i \in 1..ExpNumAxes |-> shared],
        appended |-> [i \in 1..ExpNumAxes |->
                        [k \in 1..Len(new_chunk) |-> new_chunk[k][i]]]]

\* _run_scan: host_setup(), generate_points, and _run_scan_on_host or
\* _run_scan_on_kernel up to the call of scan_impl().
ExpRunScan ==
    /\ epc = "scan_setup"
    /\ exp_all_points' = generate_points(scan_counts)
    /\ exp_points' = generate_points(scan_counts)
    /\ IF spawns_kernel
       THEN /\ exp_chunk' = <<>>
            /\ IF ExpHasKscanImpl(ExpNumAxes)
               THEN /\ epc' = "kscan"
                    /\ exp_kpc' = "chunk"
               ELSE /\ epc' = "NotImplementedError"
                    /\ UNCHANGED exp_kpc
       ELSE /\ epc' = "scan_host_next"
            /\ UNCHANGED <<exp_chunk, exp_kpc>>
    /\ UNCHANGED <<continuous_without_axes, spawns_kernel, first, point_phase,
                   phase_log, completed, exp_rpc, single_runs,
                   last_check_pause, last_pause, runner_vars, scan_counts,
                   exp_param, exp_values, exp_ki, exp_queue, exp_executed,
                   ds_axis, ds_channel, empty_chunks>>

\* _run_scan_on_host: next(points, None), break, or set each axis and append
\* its value to ndscan.points.axis_i.
ExpHostNextPoint ==
    /\ epc = "scan_host_next"
    /\ IF exp_points = <<>>
       THEN /\ epc' = "scan_host_completed"
            /\ UNCHANGED <<exp_points, exp_param, ds_axis>>
       ELSE /\ exp_points' = Tail(exp_points)
            /\ exp_param' = SetAll(exp_param, Head(exp_points))
            /\ ds_axis' = PushAll(ds_axis, Head(exp_points))
            /\ epc' = "scan_host_run"
    /\ UNCHANGED <<continuous_without_axes, spawns_kernel, first, point_phase,
                   phase_log, completed, exp_rpc, single_runs,
                   last_check_pause, last_pause, runner_vars, scan_counts,
                   exp_all_points, exp_chunk, exp_values, exp_ki, exp_kpc,
                   exp_queue, exp_executed, ds_channel, empty_chunks>>

\* _run_scan_on_host: device_setup() and run_once(), whose result is
\* appended to the channel dataset.
ExpHostRunOnce ==
    /\ epc = "scan_host_run"
    /\ exp_executed' = Append(exp_executed, exp_param)
    /\ ds_channel' = Append(ds_channel, run_once(exp_param))
    /\ epc' = "scan_host_pause"
    /\ UNCHANGED <<continuous_without_axes, spawns_kernel, first, point_phase,
                   phase_log, completed, exp_rpc, single_runs,
                   last_check_pause, last_pause, runner_vars, scan_counts,
                   exp_all_points, exp_points, exp_chunk, exp_param,
                   exp_values, exp_ki, exp_kpc, exp_queue, ds_axis,
                   empty_chunks>>

\* _run_scan_on_host: scheduler.pause() returns, or raises
\* TerminationRequested, which the with block suppresses: _run_scan returns
\* to run().
ExpHostPause ==
    /\ epc = "scan_host_pause"
    /\ \E terminate \in BOOLEAN :
          /\ last_pause' = IF terminate THEN "terminated" ELSE "resumed"
          /\ epc' = IF terminate THEN "run_end" ELSE "scan_host_next"
    /\ UNCHANGED <<continuous_without_axes, spawns_kernel, first, point_phase,
                   phase_log, completed, exp_rpc, single_runs,
                   last_check_pause, runner_vars, scan_vars>>

\* _run_scan_on_host: self._set_completed() after the loop.
ExpHostSetCompleted ==
    /\ epc = "scan_host_completed"
    /\ completed' = TRUE
    /\ epc' = "run_end"
    /\ UNCHANGED <<continuous_without_axes, spawns_kernel, first, point_phase,
                   phase_log, exp_rpc, single_runs, last_check_pause,
                   last_pause, runner_vars, scan_vars>>

\* _kscan_impl_N: the synchronous RPC _kscan_param_values_chunk(); the for
\* loop runs len(param_values_0) times.
ExpKernelChunk ==
    /\ exp_kpc = "chunk"
    /\ exp_queue = <<>>
    /\ LET r == ExpKscanParamValuesChunk(exp_chunk, exp_points)
       IN /\ (r.values[1] = <<>> => empty_chunks < MaxEmptyChunks)
          /\ exp_chunk' = r.chunk
          /\ exp_points' = r.iter
          /\ exp_values' = r.values
          /\ ds_axis' = [i \in 1..ExpNumAxes |-> ds_axis[i] \o r.appended[i]]
          /\ exp_ki' = 1
          /\ IF r.values[1] = <<>>
             THEN /\ exp_kpc' = "check_pause"
                  /\ empty_chunks' = empty_chunks + 1
             ELSE /\ exp_kpc' = "set"
                  /\ UNCHANGED empty_chunks
    /\ UNCHANGED <<continuous_without_axes, spawns_kernel, epc, first,
                   point_phase, phase_log, completed, exp_rpc, single_runs,
                   last_check_pause, last_pause, runner_vars, scan_counts,
                   exp_all_points, exp_param, exp_queue, exp_executed,
                   ds_channel>>

\* _kscan_impl_N: self._kscan_param_setter_j(param_values_j[i]) for each axis.
ExpKernelSetParams ==
    /\ exp_kpc = "set"
    /\ exp_param' = [j \in 1..ExpNumAxes |-> exp_values[j][exp_ki]]
    /\ exp_kpc' = "run"
    /\ UNCHANGED <<continuous_without_axes, spawns_kernel, epc, first,
                   point_phase, phase_log, completed, exp_rpc, single_runs,
                   last_check_pause, last_pause, runner_vars, scan_counts,
                   exp_all_points, exp_points, exp_chunk, exp_values, exp_ki,
                   exp_queue, exp_executed, ds_axis, ds_channel,
                   empty_chunks>>

\* _kscan_impl_N: device_setup() and run_once(), which pushes its result to
\* the host.
ExpKernelRunOnce ==
    /\ exp_kpc = "run"
    /\ Len(exp_queue) < MaxRpcQueue
    /\ exp_executed' = Append(exp_executed, exp_param)
    /\ exp_queue' = Append(exp_queue, [rpc |-> "push",
                                       value |-> run_once(exp_param)])
    /\ exp_kpc' = "completed"
    /\ UNCHANGED <<continuous_without_axes, spawns_kernel, epc, first,
                   point_phase, phase_log, completed, exp_rpc, single_runs,
                   last_check_pause, last_pause, runner_vars, scan_counts,
                   exp_all_points, exp_points, exp_chunk, exp_param,
                   exp_values, exp_ki, ds_axis, ds_channel, empty_chunks>>

\* _kscan_impl_N: the asynchronous RPC self._kscan_point_completed(), and
\* the next round of the for loop or its end.
ExpKernelPointCompleted ==
    /\ exp_kpc = "completed"
    /\ Len(exp_queue) < MaxRpcQueue
    /\ exp_queue' = Append(exp_queue,
                           [rpc |-> "_kscan_point_completed", value |-> 0])
    /\ IF exp_ki < Len(exp_values[1])
       THEN /\ exp_ki' = exp_ki + 1
            /\ exp_kpc' = "set"
       ELSE /\ exp_ki' = exp_ki
            /\ exp_kpc' = "check_pause"
    /\ UNCHANGED <<continuous_without_axes, spawns_kernel, epc, first,
                   point_phase, phase_log, completed, exp_rpc, single_runs,
                   last_check_pause, last_pause, runner_vars, scan_counts,
                   exp_all_points, exp_points, exp_chunk, exp_param,
                   exp_values, exp_executed, ds_axis, ds_channel,
                   empty_chunks>>

\* _kscan_impl_N: if self.scheduler.check_pause(): return, after the for
\* loop.  The kernel's return ends _run_scan_on_kernel and _run_scan.
ExpKernelCheckPause ==
    /\ exp_kpc = "check_pause"
    /\ exp_queue = <<>>
    /\ epc = "kscan"
    /\ \E check_pause \in BOOLEAN :
          /\ last_check_pause' = IF check_pause THEN "true" ELSE "false"
          /\ exp_kpc' = IF check_pause THEN "off" ELSE "chunk"
          /\ epc' = IF check_pause THEN "run_end" ELSE epc
    /\ UNCHANGED <<continuous_without_axes, spawns_kernel, first, point_phase,
                   phase_log, completed, exp_rpc, single_runs, last_pause,
                   runner_vars, scan_counts, exp_all_points, exp_points,
                   exp_chunk, exp_param, exp_values, exp_ki, exp_queue,
                   exp_executed, ds_axis, ds_channel, empty_chunks>>

\* The host serves the asynchronous RPC of a result channel push:
\* _broadcast_result appends the value to the channel dataset.
ExpServeResult ==
    /\ epc = "kscan"
    /\ exp_queue # <<>>
    /\ Head(exp_queue).rpc = "push"
    /\ ds_channel' = Append(ds_channel, Head(exp_queue).value)
    /\ exp_queue' = Tail(exp_queue)
    /\ UNCHANGED <<continuous_without_axes, spawns_kernel, epc, first,
                   point_phase, phase_log, completed, exp_rpc, single_runs,
                   last_check_pause, last_pause, runner_vars, scan_counts,
                   exp_all_points, exp_points, exp_chunk, exp_param,
                   exp_values, exp_ki, exp_kpc, exp_executed, ds_axis,
                   empty_chunks>>

\* The host serves _kscan_point_completed: self._kscan_current_chunk.pop(0),
\* which raises IndexError on an empty list and so ends the run.
ExpServePointCompleted ==
    /\ epc = "kscan"
    /\ exp_queue # <<>>
    /\ Head(exp_queue).rpc = "_kscan_point_completed"
    /\ IF exp_chunk = <<>>
       THEN /\ epc' = "IndexError"
            /\ exp_kpc' = "off"
            /\ UNCHANGED exp_chunk
       ELSE /\ exp_chunk' = PopHead(exp_chunk).rest
            /\ UNCHANGED <<epc, exp_kpc>>
    /\ exp_queue' = Tail(exp_queue)
    /\ UNCHANGED <<continuous_without_axes, spawns_kernel, first, point_phase,
                   phase_log, completed, exp_rpc, single_runs,
                   last_check_pause, last_pause, runner_vars, scan_counts,
                   exp_all_points, exp_points, exp_param, exp_values, exp_ki,
                   exp_executed, ds_axis, ds_channel, empty_chunks>>

ExpNext ==
    \/ ExpRun
    \/ SingleHostSetup
    \/ SingleCheckPause
    \/ SingleRunOnce
    \/ ServePointPhase
    \/ SingleLoopExit
    \/ SinglePause
    \/ SingleFinally
    \/ ExpRunEnd
    \/ ExpRunScan
    \/ ExpHostNextPoint
    \/ ExpHostRunOnce
    \/ ExpHostPause
    \/ ExpHostSetCompleted
    \/ ExpKernelChunk
    \/ ExpKernelSetParams
    \/ ExpKernelRunOnce
    \/ ExpKernelPointCompleted
    \/ ExpKernelCheckPause
    \/ ExpServeResult
    \/ ExpServePointCompleted

ExpSpec == ExpInit /\ [][ExpNext]_vars

\* ------------------------------------------------- reference executions

\* Column i of a point sequence.
AxisColumn(pts, i) == [k \in 1..Len(pts) |-> pts[k][i]]

IsPrefix(s, t) == Len(s) <= Len(t) /\ s = SubSeq(t, 1, Len(s))

\* _run_scan_on_host over iter when scheduler.pause() always returns: the
\* sinks at the end.
RECURSIVE HostRunNoPause(_, _, _, _)
HostRunNoPause(iter, stores, asinks, rsink) ==
    IF iter = <<>> THEN [axis_sinks |-> asinks, result_sink |-> rsink]
    ELSE LET set == SetAll(stores, Head(iter))
         IN HostRunNoPause(Tail(iter), set, PushAll(asinks, Head(iter)),
                           Append(rsink, run_once(set)))

\* The kernel's for loop over one tuple of lists from point i on, every
\* _kscan_point_completed served: chunk, iterator and sinks afterwards.
RECURSIVE KernelLoopNoPause(_, _, _, _, _, _)
KernelLoopNoPause(chunk, iter, asinks, rsink, values, i) ==
    IF i > Len(values[1])
    THEN [chunk |-> chunk, iter |-> iter, axis_sinks |-> asinks,
          result_sink |-> rsink]
    ELSE LET popped == PopHead(chunk)
             r == KscanUpdateHostParamStores(popped.rest, iter, host_param)
         IN KernelLoopNoPause(
                r.chunk, r.iter, PushAll(asinks, popped.value),
                Append(rsink,
                       run_once([j \in 1..NumAxes |-> values[j][i]])),
                values, i + 1)

\* _kscan_impl_N from a chunk request on when check_pause() is never True.
RECURSIVE KscanNoPause(_, _, _, _)
KscanNoPause(chunk, iter, asinks, rsink) ==
    LET r == KscanParamValuesChunk(chunk, iter)
    IN IF r.raised THEN [axis_sinks |-> asinks, result_sink |-> rsink]
       ELSE LET l == KernelLoopNoPause(r.chunk, r.iter, asinks, rsink,
                                       r.values, 1)
            IN KscanNoPause(l.chunk, l.iter, l.axis_sinks, l.result_sink)

\* _run_scan_on_core_device over pts with no kernel return on a pause.
CoreRunNoPause(pts) ==
    LET r == KscanUpdateHostParamStores(<<>>, pts, host_param)
    IN KscanNoPause(r.chunk, r.iter, [j \in 1..NumAxes |-> <<>>], <<>>)

\* Sinks after an uninterrupted run of this scan on the path it takes.
UninterruptedRun ==
    IF on_core THEN CoreRunNoPause(all_points)
    ELSE HostRunNoPause(all_points, host_param,
                        [j \in 1..NumAxes |-> <<>>], <<>>)

Started == hpc \notin {"idle", "NotImplementedError"}

TypeOK ==
    /\ hpc \in {"idle", "host_next", "host_run", "host_pause", "core_prime",
                "core_launch", "core_serving", "core_pause", "returned",
                "TerminationRequested", "NotImplementedError", "IndexError",
                "unused"}
    /\ kpc \in {"off", "chunk", "set", "run", "completed", "pause_check"}
    /\ Len(kscan_current_chunk) <= CHUNK_SIZE
    /\ Len(rpc_queue) <= MaxRpcQueue

\* ------------------------------------------------------------------ claims

\* C1: when a run has returned (host or core device path, whatever the
\* pauses), each axis sink holds exactly the points' values for its axis, one
\* per point and in point order.
C1_AxisSinksHoldEveryPointOnce ==
    hpc = "returned" =>
        \A i \in 1..NumAxes : axis_sinks[i] = AxisColumn(all_points, i)

\* A core device run over more than one chunk that returned after two pauses.
C1_Witness ==
    /\ hpc = "returned"
    /\ on_core
    /\ returns >= 2
    /\ NumAxes = 2
    /\ Len(all_points) > CHUNK_SIZE

\* C2: a core device run whose kernel returned on pause requests and was
\* launched again ends with the sinks of the run with no pause.
C2_PausedRunEndsLikeUnpaused ==
    (on_core /\ hpc = "returned") =>
        /\ axis_sinks = CoreRunNoPause(all_points).axis_sinks
        /\ result_sink = CoreRunNoPause(all_points).result_sink

\* A finished core device run with a kernel return in the middle of a chunk.
C2_Witness ==
    /\ hpc = "returned"
    /\ on_core
    /\ mid_chunk_return
    /\ Len(result_sink) > CHUNK_SIZE

\* C3: after TerminationRequested every sink holds a prefix of what the
\* uninterrupted run leaves in it, all sinks stop at the same point, and
\* nothing is in flight or running any more.
C3_CancelledRunLeavesPrefix ==
    hpc = "TerminationRequested" =>
        /\ \A i \in 1..NumAxes :
              /\ IsPrefix(axis_sinks[i], UninterruptedRun.axis_sinks[i])
              /\ Len(axis_sinks[i]) = Len(result_sink)
        /\ IsPrefix(result_sink, UninterruptedRun.result_sink)
        /\ kpc = "off"
        /\ rpc_queue = <<>>

\* A core device run cancelled with points delivered and points left.
C3_Witness ==
    /\ hpc = "TerminationRequested"
    /\ on_core
    /\ NumAxes = 2
    /\ Len(result_sink) > 0
    /\ Len(result_sink) < Len(all_points)
    /\ kscan_current_chunk # <<>>

\* C4: after TerminationRequested, for every point either all its axis
\* sinks hold its coordinate, run_once has run for it and its result is in
\* the result sink, or none of that is the case.
C4_NoPartiallyDeliveredPoint ==
    hpc = "TerminationRequested" =>
        \A k \in 1..Len(all_points) :
            \/ /\ \A i \in 1..NumAxes : Len(axis_sinks[i]) >= k
               /\ Len(executed) >= k
               /\ Len(result_sink) >= k
            \/ /\ \A i \in 1..NumAxes : Len(axis_sinks[i]) < k
               /\ Len(executed) < k
               /\ Len(result_sink) < k

\* A host run on two axes cancelled after its first point.
C4_Witness ==
    /\ hpc = "TerminationRequested"
    /\ ~on_core
    /\ NumAxes = 2
    /\ Len(executed) = 1
    /\ Len(all_points) > 1

\* C5: a finished run leaves in every sink what the host path leaves there
\* and what the core device path leaves there for the same points.
C5_HostAndCoreEndAlike ==
    (hpc = "returned" /\ HasKscanImpl(NumAxes)) =>
        /\ axis_sinks = HostRunNoPause(all_points, host_param,
                                       [j \in 1..NumAxes |-> <<>>],
                                       <<>>).axis_sinks
        /\ result_sink = HostRunNoPause(all_points, host_param,
                                        [j \in 1..NumAxes |-> <<>>],
                                        <<>>).result_sink
        /\ axis_sinks = CoreRunNoPause(all_points).axis_sinks
        /\ result_sink = CoreRunNoPause(all_points).result_sink

\* The values the kernel's setters receive for a point.
Coerced(p) == [j \in 1..NumAxes |-> coerce(axis_types[j], p[j])]

\* Points popped from the chunk so far.
Acknowledged == Len(all_points) - Len(points) - Len(kscan_current_chunk)

\* _kscan_point_completed calls issued and not yet served.
AcksInFlight ==
    Cardinality({q \in 1..Len(rpc_queue) :
                    rpc_queue[q].rpc = "_kscan_point_completed"})

\* C6: on the core device path the kernel has run run_once for the first
\* points of the sequence, once each and in order, however often it returned
\* and was launched again; the points run are those acknowledged, those
\* whose acknowledgment is in flight and the one about to be acknowledged,
\* so a launch starts at the first point not yet acknowledged; a finished
\* run has run every point.
C6_KernelRunsEachPointOnceInOrder ==
    (on_core /\ Started) =>
        /\ Len(executed) <= Len(all_points)
        /\ (\A k \in 1..Len(executed) : executed[k] = Coerced(all_points[k]))
        /\ Len(executed) = Acknowledged + AcksInFlight
                           + (IF kpc = "completed" THEN 1 ELSE 0)
        /\ (hpc = "returned" => Len(executed) = Len(all_points))

\* The kernel runs a point right after a launch that followed a pause in
\* the middle of a chunk.
C6_Witness ==
    /\ on_core
    /\ kpc = "run"
    /\ ki = 1
    /\ mid_chunk_return
    /\ Len(executed) > 0
    /\ Len(param_values[1]) = CHUNK_SIZE

\* C7: when run_once runs for the k-th point the parameter stores it reads
\* hold the k-th point, and a finished one-axis scan has the points in its
\* axis sink and run_once of each point in its result sink.
C7_CallbackSeesPointValue ==
    /\ (kpc = "run" => kernel_param = all_points[Len(executed) + 1])
    /\ (hpc = "host_run" => host_param = all_points[Len(executed) + 1])
    /\ ((hpc = "returned" /\ NumAxes = 1) =>
          /\ axis_sinks[1] = AxisColumn(all_points, 1)
          /\ result_sink = [k \in 1..Len(all_points) |->
                               run_once(all_points[k])])

\* C8 as claimed: on both paths the k-th result is pushed only after the
\* k-th value of every axis.
C8_AxisThenResultOnBothPaths ==
    \A i \in 1..NumAxes : Len(result_sink) <= Len(axis_sinks[i])

\* C8 as amended: on the host path a point's axis values are pushed before
\* its result; on the core device path its result is pushed before its axis
\* values; the sinks are never more than one point apart.
C8_AxisFirstOnHostResultFirstOnCore ==
    \A i \in 1..NumAxes :
        IF on_core
        THEN /\ Len(axis_sinks[i]) <= Len(result_sink)
             /\ Len(result_sink) <= Len(axis_sinks[i]) + 1
        ELSE /\ Len(result_sink) <= Len(axis_sinks[i])
             /\ Len(axis_sinks[i]) <= Len(result_sink) + 1

\* On the core device path the result of the third point is in its sink and
\* its coordinate not yet.
C8_Witness ==
    /\ on_core
    /\ NumAxes = 1
    /\ Len(result_sink) = 3
    /\ Len(axis_sinks[1]) = 2

\* C9: on the core device path, from the first priming on, while a point is
\* left to deliver the chunk is not empty and every host parameter store
\* holds the value of the chunk's first point: a chunk emptied by an
\* acknowledgment is refilled by that acknowledgment.
C9_HostStoresHoldChunkHead ==
    (on_core /\ Started /\ hpc # "core_prime") =>
        ((points # <<>> \/ kscan_current_chunk # <<>>) =>
            /\ kscan_current_chunk # <<>>
            /\ host_param = kscan_current_chunk[1])

\* The acknowledgment of the last point of the first chunk has been served
\* before the kernel asks for the next chunk.
C9_Witness ==
    /\ on_core
    /\ kpc = "pause_check"
    /\ ki = CHUNK_SIZE
    /\ rpc_queue = <<>>
    /\ Len(axis_sinks[1]) = CHUNK_SIZE
    /\ kscan_current_chunk # <<>>
    /\ host_param = all_points[CHUNK_SIZE + 1]

\* C10: _kscan_param_values_chunk raises ScanFinished exactly when the chunk
\* is empty after the top-up; the run then returns, with every point
\* delivered, and ScanFinished does not reach the caller.
C10_ScanFinishedIffNothingLeft ==
    (on_core /\ Started /\ hpc # "core_prime") =>
        /\ last_chunk_raised <=> (kscan_current_chunk = <<>>)
        /\ (last_chunk_raised => points = <<>>)
        /\ (hpc = "returned" =>
              /\ last_chunk_raised
              /\ Acknowledged = Len(all_points))
        /\ hpc # "ScanFinished"

\* A core device run over an empty point sequence has returned.
C10_Witness ==
    /\ on_core
    /\ hpc = "returned"
    /\ HasKscanImpl(NumAxes)
    /\ all_points = <<>>
    /\ last_chunk_raised

\* C11: a run that has returned normally has executed every point of the
\* point sequence and delivered it to the sinks; a run ended by
\* TerminationRequested stays in that state (the exception is with the
\* caller) and never turns into a normal return.
C11_NormalReturnMeansAllDelivered ==
    /\ (hpc = "returned" =>
          /\ points = <<>>
          /\ kscan_current_chunk = <<>>
          /\ rpc_queue = <<>>
          /\ kpc = "off"
          /\ Len(executed) = Len(all_points)
          /\ Len(result_sink) = Len(all_points)
          /\ \A i \in 1..NumAxes : axis_sinks[i] = AxisColumn(all_points, i))
    /\ (hpc = "TerminationRequested" =>
          /\ kpc = "off"
          /\ ~ENABLED Next)

\* A core device run of more than one chunk that was paused and resumed has
\* returned.
C11_Witness ==
    /\ on_core
    /\ hpc = "returned"
    /\ returns >= 1
    /\ Len(all_points) > CHUNK_SIZE
    /\ Len(executed) = Len(all_points)

\* C12: a run with a kernel callback and an axis count other than 1, 2 or 3
\* ends in NotImplementedError, with every parameter store at its default,
\* every sink empty, host_setup not called, no point pulled from the
\* iterator and none executed.
C12_UnsupportedAxisCountFailsBeforeAnyEffect ==
    /\ (on_core /\ NumAxes \notin {1, 2, 3} /\ hpc \notin {"idle", "unused"}
          => hpc = "NotImplementedError")
    /\ (hpc = "NotImplementedError" =>
          /\ on_core
          /\ NumAxes \notin {1, 2, 3}
          /\ host_param = [j \in 1..NumAxes |-> ParamDefault]
          /\ kernel_param = [j \in 1..NumAxes |-> ParamDefault]
          /\ axis_sinks = [j \in 1..NumAxes |-> <<>>]
          /\ result_sink = <<>>
          /\ ~host_setup_called
          /\ points = all_points
          /\ kscan_current_chunk = <<>>
          /\ executed = <<>>
          /\ kpc = "off"
          /\ rpc_queue = <<>>)

\* A four-axis scan with points to run has failed on the core device path.
C12_Witness ==
    /\ on_core
    /\ hpc = "NotImplementedError"
    /\ NumAxes = 4
    /\ all_points # <<>>

\* Every point whose callback was started has completed and has been
\* delivered: its result and its coordinates are in the sinks, and no RPC of
\* it is still in flight.
BetweenPoints ==
    /\ kpc \notin {"run", "completed"}
    /\ rpc_queue = <<>>
    /\ Len(result_sink) = Len(executed)
    /\ \A i \in 1..NumAxes : Len(axis_sinks[i]) = Len(executed)

\* C13: scheduler.pause() is called, a TerminationRequested ends the run,
\* and check_pause() is queried by the kernel, only in states between
\* points; the kernel queries it only at its pause check after a point.
C13_PauseOnlyBetweenPoints ==
    /\ [](hpc \in {"host_pause", "core_pause", "TerminationRequested"}
            => BetweenPoints)
    /\ [][(last_check = "none" /\ last_check' # "none")
            => (BetweenPoints /\ kpc = "pause_check")]_vars

\* The kernel has returned on check_pause() in the middle of a chunk.
C13_Witness ==
    /\ on_core
    /\ hpc = "core_pause"
    /\ last_check = "true"
    /\ mid_chunk_return
    /\ Len(executed) >= 2
    /\ points # <<>>

\* C14: in a continuous _run_single the loop is left only after check_pause()
\* returned true, scheduler.pause() is what follows, the loop is entered
\* again when pause() returns, and _run_single ends only when pause() raised
\* TerminationRequested, which is suppressed (no error state).
C14_ContinuousRunsUntilPauseAndResumes ==
    (scan_counts = <<>> /\ continuous_without_axes) =>
        /\ (epc \in {"loop_exit", "pause"} => last_check_pause = "true")
        /\ (last_pause = "resumed" =>
              epc \in {"host_setup", "check_pause", "body", "loop_exit",
                       "pause"})
        /\ (epc \in {"finally", "run_end", "done"} =>
              /\ last_pause = "terminated"
              /\ last_check_pause = "true")
        /\ epc # "TerminationRequested"

\* A continuous run that was paused and resumed has executed a point since
\* and is at its next check_pause().
C14_Witness ==
    /\ scan_counts = <<>>
    /\ continuous_without_axes
    /\ last_pause = "resumed"
    /\ epc = "check_pause"
    /\ ~first
    /\ single_runs >= 2

\* C15: in every run() on a runner, the first included or not, the core
\* device path starts from an empty chunk and the full point sequence of
\* the run's own specification, and what is executed and what the axis
\* sinks receive is a prefix of that sequence, all of it once the run has
\* returned.
C15_EachRunDeliversItsOwnPoints ==
    /\ (hpc = "core_prime" =>
          /\ kscan_current_chunk = <<>>
          /\ points = generate_points(spec_counts))
    /\ (hpc \notin {"idle", "NotImplementedError"} =>
          /\ all_points = generate_points(spec_counts)
          /\ Len(executed) <= Len(all_points)
          /\ \A k \in 1..Len(executed) :
                executed[k] = IF on_core THEN Coerced(all_points[k])
                              ELSE all_points[k]
          /\ \A i \in 1..NumAxes :
                IsPrefix(axis_sinks[i], AxisColumn(all_points, i)))
    /\ (hpc = "returned" =>
          /\ Len(executed) = Len(all_points)
          /\ \A i \in 1..NumAxes :
                axis_sinks[i] = AxisColumn(all_points, i))

\* A second core device run has returned after a first one that was
\* cancelled with points left in the chunk.
C15_Witness ==
    /\ run_no = 2
    /\ on_core
    /\ prev_chunk # <<>>
    /\ hpc = "returned"
    /\ Len(all_points) >= 2

\* C16: once a run whose run_once pushes nothing to the result channel has
\* returned with points delivered, no substitute value is in the result sink
\* and the runner has logged a warning.
C16_MissingResultIsReported ==
    (~pushes_result /\ hpc = "returned" /\ all_points # <<>>) =>
        /\ result_sink = <<>>
        /\ warnings > 0

\* Points acknowledged by the host so far on the core device path.
AcksServed == Len(axis_sinks[1])

\* C17: no _kscan_point_completed call pops from an empty chunk, and the
\* j-th acknowledgment in flight stands for the j-th point of the chunk,
\* which is the point the kernel ran at that position of the sequence; so
\* the call served next pops the point whose callback it reports.
C17_AckPopsThePointJustExecuted ==
    /\ hpc # "IndexError"
    /\ (on_core /\ hpc = "core_serving") =>
          \A j \in 1..AcksInFlight :
             /\ j <= Len(kscan_current_chunk)
             /\ AcksServed + j <= Len(executed)
             /\ kscan_current_chunk[j] = all_points[AcksServed + j]
             /\ executed[AcksServed + j] = Coerced(kscan_current_chunk[j])

\* After a kernel return in the middle of a chunk and a relaunch, the
\* acknowledgment of a point of the second chunk is in flight.
C17_Witness ==
    /\ on_core
    /\ hpc = "core_serving"
    /\ mid_chunk_return
    /\ AcksServed >= CHUNK_SIZE
    /\ AcksInFlight >= 1

\* C18: on the core device path the chunk is the segment of the point
\* sequence that starts at the first point not yet acknowledged, and the
\* iterator holds what follows it; a step either extends the chunk at its
\* end or is an acknowledgment that removes its head (and may then refill).
C18_ChunkIsSegmentFromFirstUnacknowledged ==
    /\ []((on_core /\ hpc \notin {"idle", "NotImplementedError"}) =>
            /\ AcksServed + Len(kscan_current_chunk) <= Len(all_points)
            /\ kscan_current_chunk =
                  SubSeq(all_points, AcksServed + 1,
                         AcksServed + Len(kscan_current_chunk))
            /\ points =
                  SubSeq(all_points,
                         AcksServed + Len(kscan_current_chunk) + 1,
                         Len(all_points)))
    /\ [][on_core =>
             \/ IsPrefix(kscan_current_chunk, kscan_current_chunk')
             \/ /\ kscan_current_chunk # <<>>
                /\ IsPrefix(Tail(kscan_current_chunk), kscan_current_chunk')
                /\ rpc_queue # <<>>
                /\ Head(rpc_queue).rpc = "_kscan_point_completed"
                /\ rpc_queue' = Tail(rpc_queue)]_vars

\* A chunk topped up at a relaunch after a kernel return in mid-chunk:
\* it is full again and starts behind the points acknowledged.
C18_Witness ==
    /\ on_core
    /\ mid_chunk_return
    /\ kpc = "set"
    /\ AcksServed >= 1
    /\ AcksServed + CHUNK_SIZE <= Len(all_points)
    /\ Len(kscan_current_chunk) = CHUNK_SIZE

\* C19: the chunk never holds more than CHUNK_SIZE points; a step of the
\* core device path pulls from the iterator at most CHUNK_SIZE minus the
\* chunk length at the request (after the pop, if the step is an
\* acknowledgment), and that number is not negative.
C19_ChunkNeverExceedsChunkSize ==
    /\ [](Len(kscan_current_chunk) <= CHUNK_SIZE)
    /\ [][(on_core /\ hpc # "idle") =>
             LET pulled == Len(points) - Len(points')
                 at_request ==
                     IF Len(axis_sinks'[1]) > Len(axis_sinks[1])
                     THEN Len(kscan_current_chunk) - 1
                     ELSE Len(kscan_current_chunk)
             IN /\ pulled >= 0
                /\ CHUNK_SIZE - at_request >= 0
                /\ pulled <= CHUNK_SIZE - at_request
                /\ Len(kscan_current_chunk') = at_request + pulled]_vars

\* A chunk request at a relaunch found points in the chunk and topped it up
\* to CHUNK_SIZE, leaving points in the iterator.
C19_Witness ==
    /\ on_core
    /\ mid_chunk_return
    /\ kpc = "set"
    /\ ki = 1
    /\ AcksServed >= 1
    /\ Len(kscan_current_chunk) = CHUNK_SIZE
    /\ points # <<>>

\* The step is a check_pause() query of the kernel.
PauseQuery == last_check = "none" /\ last_check' # "none"

\* C20: the kernel queries check_pause() only at the pause check that
\* follows a point's acknowledgment and only when more than the interval has
\* passed since the last query or the kernel's entry; a query that returns
\* true ends the kernel, one that returns false resets the reference time
\* and lets it go on; the kernel ends otherwise only by ScanFinished, with
\* nothing left to run.
C20_PauseCheckThrottled ==
    [][/\ (PauseQuery =>
             /\ kpc = "pause_check"
             /\ since_query > kscan_pause_check_interval_mu)
       /\ ((PauseQuery /\ last_check' = "true") =>
             /\ kpc' = "off"
             /\ hpc' = "core_pause")
       /\ ((PauseQuery /\ last_check' = "false") =>
             /\ kpc' # "off"
             /\ since_pause_check' = 0)
       /\ ((kpc # "off" /\ kpc' = "off") =>
             \/ (PauseQuery /\ last_check' = "true")
             \/ /\ hpc' = "returned"
                /\ points' = <<>>
                /\ kscan_current_chunk' = <<>>
                /\ Len(executed) = Len(all_points))]_vars

\* A query has returned false and the kernel has gone on; a later point
\* passed its pause check without a query.
C20_Witness ==
    /\ on_core
    /\ last_check = "none"
    /\ kpc \in {"set", "chunk"}
    /\ since_pause_check = 1
    /\ since_query = 1
    /\ Len(executed) >= 3
    /\ returns = 0

\* C21: in a kernel scan, once a chunk request has found the points
\* exhausted (every point executed and acknowledged, nothing returned), the
\* kernel does not come back to request another chunk unless a pause was
\* asked for: the scan loop has ended.
C21_KernelScanEndsOnExhaustion ==
    (/\ spawns_kernel
     /\ epc = "kscan"
     /\ empty_chunks >= 1
     /\ exp_points = <<>>
     /\ exp_chunk = <<>>
     /\ Len(exp_executed) = Len(exp_all_points))
        => exp_kpc # "chunk"

\* C22: when run() has got past a kernel scan, every point of the scan has
\* been executed, and the coordinate and channel datasets are those of the
\* whole scan, whether or not check_pause() returned true before the points
\* were exhausted.
C22_PausedKernelScanRunsRemainingPoints ==
    (spawns_kernel /\ scan_counts # <<>> /\ epc \in {"run_end", "done"}) =>
        /\ exp_executed = exp_all_points
        /\ \A i \in 1..ExpNumAxes :
              ds_axis[i] = AxisColumn(exp_all_points, i)
        /\ ds_channel = [k \in 1..Len(exp_all_points) |->
                            run_once(exp_all_points[k])]

\* C23: in a two-axis kernel scan the tuple the kernel has just received
\* holds, at position i, the i-th coordinate of each chunk point in order;
\* the kernel runs each point of the sequence once with its coordinates, and
\* no acknowledgment finds the chunk empty.
C23_ChunkTupleHasOneListPerAxis ==
    (spawns_kernel /\ ExpNumAxes = 2) =>
        /\ ((exp_kpc = "set" /\ exp_ki = 1 /\ exp_queue = <<>>) =>
              \A i \in 1..ExpNumAxes :
                 exp_values[i] = AxisColumn(exp_chunk, i))
        /\ Len(exp_executed) <= Len(exp_all_points)
        /\ (\A k \in 1..Len(exp_executed) :
               exp_executed[k] = exp_all_points[k])
        /\ epc # "IndexError"

\* The scan ran to its end: every point executed, or the one point of a
\* scan without axes that is not continuous.
RanToEnd ==
    IF scan_counts = <<>>
    THEN ~continuous_without_axes /\ single_runs = 1
    ELSE epc \notin {"idle", "scan_setup"}
         /\ exp_points = <<>>
         /\ Len(exp_executed) = Len(exp_all_points)

\* C24: ndscan.completed is True only if the scan ran to its end, and a run
\* whose scheduler.pause() raised TerminationRequested leaves it False.
C24_CompletedOnlyWhenRanToEnd ==
    /\ (completed => RanToEnd)
    /\ (last_pause = "terminated" => ~completed)

\* C25: on both paths, the value in an axis sink for a point is the value the
\* axis's parameter store held when run_once ran for that point.
C25_AxisSinkHoldsAppliedValue ==
    hpc \notin {"idle", "unused", "NotImplementedError"} =>
        \A i \in 1..NumAxes :
           \A k \in 1..Min(Len(axis_sinks[i]), Len(executed)) :
              axis_sinks[i][k] = executed[k][i]

\* C26: a run that has ended with every point executed and delivered has
\* returned normally, not with TerminationRequested.
C26_FullyDeliveredScanReturns ==
    (/\ hpc \in {"returned", "TerminationRequested"}
     /\ points = <<>>
     /\ kscan_current_chunk = <<>>
     /\ Len(executed) = Len(all_points)
     /\ Len(result_sink) = Len(all_points)
     /\ \A i \in 1..NumAxes : axis_sinks[i] = AxisColumn(all_points, i))
        => hpc = "returned"

\* C27: a scan without axes that is not continuous has called run_once
\* exactly once when ndscan.completed is set.
C27_NonContinuousRunsOnce ==
    (scan_counts = <<>> /\ ~continuous_without_axes /\ completed) =>
        single_runs = 1

\* C28: in a continuous scan without axes, every value ndscan.point_phase is
\* set to differs from the one it was set to before.
C28_PointPhaseAlternates ==
    (scan_counts = <<>> /\ continuous_without_axes) =>
        \A k \in 1..(Len(phase_log) - 1) : phase_log[k] # phase_log[k + 1]

====
